---- MODULE Spec2Model ----
(***************************************************************************)
(* Multi-cluster dispatch layer of kubernetes-mcp-server: the routing      *)
(* predicate and shadow methods of pkg/api/toolsets.go and the ACM         *)
(* cluster-proxy client of pkg/acm/client.go.                              *)
(*                                                                         *)
(* Go strings are sequences of one-character strings, so that formatting,  *)
(* searching, lower-casing and escaping are computed character by          *)
(* character as the code computes them.                                    *)
(***************************************************************************)
EXTENDS Integers, Sequences, FiniteSets, TLC

\* ------------------------------------------------------------------------
\* String literals of the source (format strings, paths, messages).
\* ------------------------------------------------------------------------

\* "https://"
FmtHttps ==
  <<"h","t","t","p","s",":","/","/">>

\* "/"
FmtSlash ==
  <<"/">>

\* "/api/"
FmtApi ==
  <<"/","a","p","i","/">>

\* "/apis/"
FmtApis ==
  <<"/","a","p","i","s","/">>

\* "/namespaces/"
FmtNamespaces ==
  <<"/","n","a","m","e","s","p","a","c","e","s","/">>

\* "?labelSelector="
FmtLabelSelector ==
  <<"?","l","a","b","e","l","S","e","l","e","c","t","o","r","=">>

\* "/api/v1/namespaces/"
FmtPodsInNamespace ==
  <<"/","a","p","i","/","v","1","/","n","a","m","e","s","p","a","c","e","s","/">>

\* "/pods"
FmtPodsSuffix ==
  <<"/","p","o","d","s">>

\* "/api/v1/pods"
PathAllPods ==
  <<"/","a","p","i","/","v","1","/","p","o","d","s">>

\* "/api/v1/namespaces"
PathAllNamespaces ==
  <<"/","a","p","i","/","v","1","/","n","a","m","e","s","p","a","c","e","s">>

\* "/api/v1"
PathApiV1 ==
  <<"/","a","p","i","/","v","1">>

\* "/apis/proxy.open-cluster-management.io/v1beta1/namespaces/"
FmtLogPrefix ==
  <<"/","a","p","i","s","/","p","r","o","x","y",".","o","p","e","n","-","c","l","u","s","t",
    "e","r","-","m","a","n","a","g","e","m","e","n","t",".","i","o","/","v","1","b","e","t",
    "a","1","/","n","a","m","e","s","p","a","c","e","s","/">>

\* "/clusterstatuses/"
FmtLogClusterStatuses ==
  <<"/","c","l","u","s","t","e","r","s","t","a","t","u","s","e","s","/">>

\* "/log/"
FmtLogSegment ==
  <<"/","l","o","g","/">>

\* "tailLines"
KeyTailLines ==
  <<"t","a","i","l","L","i","n","e","s">>

\* "/apis/route.openshift.io/v1/namespaces/multicluster-engine/routes/cluster-proxy-addon-user"
PathRoute ==
  <<"/","a","p","i","s","/","r","o","u","t","e",".","o","p","e","n","s","h","i","f","t",".",
    "i","o","/","v","1","/","n","a","m","e","s","p","a","c","e","s","/","m","u","l","t","i",
    "c","l","u","s","t","e","r","-","e","n","g","i","n","e","/","r","o","u","t","e","s","/",
    "c","l","u","s","t","e","r","-","p","r","o","x","y","-","a","d","d","o","n","-","u","s",
    "e","r">>

\* "/apis/cluster.open-cluster-management.io/v1"
PathACMCheck ==
  <<"/","a","p","i","s","/","c","l","u","s","t","e","r",".","o","p","e","n","-","c","l","u",
    "s","t","e","r","-","m","a","n","a","g","e","m","e","n","t",".","i","o","/","v","1">>

\* "/apis/cluster.open-cluster-management.io/v1/managedclusters"
PathManagedClusters ==
  <<"/","a","p","i","s","/","c","l","u","s","t","e","r",".","o","p","e","n","-","c","l","u",
    "s","t","e","r","-","m","a","n","a","g","e","m","e","n","t",".","i","o","/","v","1","/",
    "m","a","n","a","g","e","d","c","l","u","s","t","e","r","s">>

\* "cluster-proxy route not discovered - ensure ACM cluster-proxy addon is installed"
ErrRouteNotDiscovered ==
  <<"c","l","u","s","t","e","r","-","p","r","o","x","y"," ","r","o","u","t","e"," ","n","o",
    "t"," ","d","i","s","c","o","v","e","r","e","d"," ","-"," ","e","n","s","u","r","e"," ",
    "A","C","M"," ","c","l","u","s","t","e","r","-","p","r","o","x","y"," ","a","d","d","o",
    "n"," ","i","s"," ","i","n","s","t","a","l","l","e","d">>

\* "ACM proxy request failed for cluster "
ErrRequestFailedFor ==
  <<"A","C","M"," ","p","r","o","x","y"," ","r","e","q","u","e","s","t"," ","f","a","i","l",
    "e","d"," ","f","o","r"," ","c","l","u","s","t","e","r"," ">>

\* "ACM proxy returned "
ErrReturned ==
  <<"A","C","M"," ","p","r","o","x","y"," ","r","e","t","u","r","n","e","d"," ">>

\* "ACM proxy log request failed for cluster "
ErrLogRequestFailedFor ==
  <<"A","C","M"," ","p","r","o","x","y"," ","l","o","g"," ","r","e","q","u","e","s","t"," ",
    "f","a","i","l","e","d"," ","f","o","r"," ","c","l","u","s","t","e","r"," ">>

\* "ACM proxy log returned "
ErrLogReturned ==
  <<"A","C","M"," ","p","r","o","x","y"," ","l","o","g"," ","r","e","t","u","r","n","e","d",
    " ">>

\* " for cluster "
ErrForCluster ==
  <<" ","f","o","r"," ","c","l","u","s","t","e","r"," ">>

\* ": "
ErrColon ==
  <<":"," ">>

\* "cluster "
ErrClusterPrefix ==
  <<"c","l","u","s","t","e","r"," ">>

\* " not accessible via ACM proxy: "
ErrNotAccessible ==
  <<" ","n","o","t"," ","a","c","c","e","s","s","i","b","l","e"," ","v","i","a"," ","A","C",
    "M"," ","p","r","o","x","y",":"," ">>

\* "create/update operations via ACM proxy not yet implemented"
ErrCreateNotImplemented ==
  <<"c","r","e","a","t","e","/","u","p","d","a","t","e"," ","o","p","e","r","a","t","i","o",
    "n","s"," ","v","i","a"," ","A","C","M"," ","p","r","o","x","y"," ","n","o","t"," ","y",
    "e","t"," ","i","m","p","l","e","m","e","n","t","e","d">>

\* "delete operations via ACM proxy not yet implemented"
ErrDeleteNotImplemented ==
  <<"d","e","l","e","t","e"," ","o","p","e","r","a","t","i","o","n","s"," ","v","i","a"," ",
    "A","C","M"," ","p","r","o","x","y"," ","n","o","t"," ","y","e","t"," ","i","m","p","l",
    "e","m","e","n","t","e","d">>

\* "ACMProxyClient does not implement ProxyRequest method"
ErrNoProxyRequestMethod ==
  <<"A","C","M","P","r","o","x","y","C","l","i","e","n","t"," ","d","o","e","s"," ","n","o",
    "t"," ","i","m","p","l","e","m","e","n","t"," ","P","r","o","x","y","R","e","q","u","e",
    "s","t"," ","m","e","t","h","o","d">>

\* "ACM proxy request failed: "
ErrProxyRequestFailed ==
  <<"A","C","M"," ","p","r","o","x","y"," ","r","e","q","u","e","s","t"," ","f","a","i","l",
    "e","d",":"," ">>

\* "failed to read ACM proxy response: "
ErrReadResponse ==
  <<"f","a","i","l","e","d"," ","t","o"," ","r","e","a","d"," ","A","C","M"," ","p","r","o",
    "x","y"," ","r","e","s","p","o","n","s","e",":"," ">>

\* "failed to parse ACM proxy response: "
ErrParseResponse ==
  <<"f","a","i","l","e","d"," ","t","o"," ","p","a","r","s","e"," ","A","C","M"," ","p","r",
    "o","x","y"," ","r","e","s","p","o","n","s","e",":"," ">>

\* "unexpected response type from proxy"
ErrUnexpectedType ==
  <<"u","n","e","x","p","e","c","t","e","d"," ","r","e","s","p","o","n","s","e"," ","t","y",
    "p","e"," ","f","r","o","m"," ","p","r","o","x","y">>

\* "failed to list managed clusters: "
ErrListClusters ==
  <<"f","a","i","l","e","d"," ","t","o"," ","l","i","s","t"," ","m","a","n","a","g","e","d",
    " ","c","l","u","s","t","e","r","s",":"," ">>

\* "failed to list managed clusters, status: "
ErrListClustersStatus ==
  <<"f","a","i","l","e","d"," ","t","o"," ","l","i","s","t"," ","m","a","n","a","g","e","d",
    " ","c","l","u","s","t","e","r","s",","," ","s","t","a","t","u","s",":"," ">>

\* ""spec":"
NeedleSpec ==
  <<"\"","s","p","e","c","\"",":">>

\* ""host":""
NeedleHost ==
  <<"\"","h","o","s","t","\"",":","\"">>

\* """
NeedleQuote ==
  <<"\"">>

\* The switch of kindToResourceName: <<kind, resource name>> per case.
KindTable ==
  <<
     <<<<"P","o","d">>,
       <<"p","o","d","s">>>>,
     <<<<"S","e","r","v","i","c","e">>,
       <<"s","e","r","v","i","c","e","s">>>>,
     <<<<"D","e","p","l","o","y","m","e","n","t">>,
       <<"d","e","p","l","o","y","m","e","n","t","s">>>>,
     <<<<"N","a","m","e","s","p","a","c","e">>,
       <<"n","a","m","e","s","p","a","c","e","s">>>>,
     <<<<"N","o","d","e">>,
       <<"n","o","d","e","s">>>>,
     <<<<"C","o","n","f","i","g","M","a","p">>,
       <<"c","o","n","f","i","g","m","a","p","s">>>>,
     <<<<"S","e","c","r","e","t">>,
       <<"s","e","c","r","e","t","s">>>>,
     <<<<"E","v","e","n","t">>,
       <<"e","v","e","n","t","s">>>>,
     <<<<"R","e","p","l","i","c","a","S","e","t">>,
       <<"r","e","p","l","i","c","a","s","e","t","s">>>>,
     <<<<"S","t","a","t","e","f","u","l","S","e","t">>,
       <<"s","t","a","t","e","f","u","l","s","e","t","s">>>>,
     <<<<"D","a","e","m","o","n","S","e","t">>,
       <<"d","a","e","m","o","n","s","e","t","s">>>>,
     <<<<"I","n","g","r","e","s","s">>,
       <<"i","n","g","r","e","s","s","e","s">>>>,
     <<<<"P","e","r","s","i","s","t","e","n","t","V","o","l","u","m","e">>,
       <<"p","e","r","s","i","s","t","e","n","t","v","o","l","u","m","e","s">>>>,
     <<<<"P","e","r","s","i","s","t","e","n","t","V","o","l","u","m","e","C","l","a","i","m">>,
       <<"p","e","r","s","i","s","t","e","n","t","v","o","l","u","m","e","c","l","a","i","m","s">>>>,
     <<<<"S","e","r","v","i","c","e","A","c","c","o","u","n","t">>,
       <<"s","e","r","v","i","c","e","a","c","c","o","u","n","t","s">>>>,
     <<<<"R","o","l","e">>,
       <<"r","o","l","e","s">>>>,
     <<<<"R","o","l","e","B","i","n","d","i","n","g">>,
       <<"r","o","l","e","b","i","n","d","i","n","g","s">>>>,
     <<<<"C","l","u","s","t","e","r","R","o","l","e">>,
       <<"c","l","u","s","t","e","r","r","o","l","e","s">>>>,
     <<<<"C","l","u","s","t","e","r","R","o","l","e","B","i","n","d","i","n","g">>,
       <<"c","l","u","s","t","e","r","r","o","l","e","b","i","n","d","i","n","g","s">>>>
  >>

\* ------------------------------------------------------------------------
\* Further messages of the source, and texts of the errors of net/url,
\* encoding/json and the unstructured decoder that it wraps.
\* ------------------------------------------------------------------------

\* "failed to create proxy request: "
ErrCreateRequest ==
  <<"f","a","i","l","e","d"," ","t","o"," ","c","r","e","a","t","e"," ","p","r","o","x","y",
    " ","r","e","q","u","e","s","t",":"," ">>

\* "failed to parse log URL: "
ErrParseLogURL ==
  <<"f","a","i","l","e","d"," ","t","o"," ","p","a","r","s","e"," ","l","o","g"," ","U","R",
    "L",":"," ">>

\* "failed to create managed clusters request: "
ErrCreateClustersRequest ==
  <<"f","a","i","l","e","d"," ","t","o"," ","c","r","e","a","t","e"," ","m","a","n","a","g",
    "e","d"," ","c","l","u","s","t","e","r","s"," ","r","e","q","u","e","s","t",":"," ">>

\* "net/url: invalid control character in URL"
ErrURLParse ==
  <<"n","e","t","/","u","r","l",":"," ","i","n","v","a","l","i","d"," ","c","o","n","t","r",
    "o","l"," ","c","h","a","r","a","c","t","e","r"," ","i","n"," ","U","R","L">>

\* "invalid character"
ErrJSONSyntax ==
  <<"i","n","v","a","l","i","d"," ","c","h","a","r","a","c","t","e","r">>

\* "cannot unmarshal into Go value"
ErrJSONNotObject ==
  <<"c","a","n","n","o","t"," ","u","n","m","a","r","s","h","a","l"," ","i","n","t","o"," ",
    "G","o"," ","v","a","l","u","e">>

\* "Object 'Kind' is missing"
ErrMissingKind ==
  <<"O","b","j","e","c","t"," ","'","K","i","n","d","'"," ","i","s"," ","m","i","s","s","i",
    "n","g">>

\* ------------------------------------------------------------------------
\* Go string and formatting primitives used by the source.
\* ------------------------------------------------------------------------

\* strings.Index(s, sub): 0-based index of the first occurrence, -1 if none.
Index(s, sub) ==
  LET hits == {i \in 0..(Len(s) - Len(sub)) : SubSeq(s, i + 1, i + Len(sub)) = sub}
  IN  IF hits = {} THEN -1 ELSE CHOOSE i \in hits : \A j \in hits : i <= j

\* s[from:] with a 0-based offset.
SliceFrom(s, from) == SubSeq(s, from + 1, Len(s))

\* s[:to] with a 0-based exclusive end.
SliceTo(s, to) == SubSeq(s, 1, to)

\* strings.TrimSuffix(s, suffix)
TrimSuffix(s, suffix) ==
  IF Len(s) >= Len(suffix) /\ SubSeq(s, Len(s) - Len(suffix) + 1, Len(s)) = suffix
  THEN SubSeq(s, 1, Len(s) - Len(suffix))
  ELSE s

DecimalDigits == <<"0","1","2","3","4","5","6","7","8","9">>

RECURSIVE FormatUnsigned(_)
FormatUnsigned(n) ==
  IF n < 10 THEN <<DecimalDigits[n + 1]>>
  ELSE FormatUnsigned(n \div 10) \o <<DecimalDigits[(n % 10) + 1]>>

\* fmt.Sprintf("%d", n)
FormatInt(n) == IF n < 0 THEN <<"-">> \o FormatUnsigned(0 - n) ELSE FormatUnsigned(n)

UpperLetters ==
  <<"A","B","C","D","E","F","G","H","I","J","K","L","M",
    "N","O","P","Q","R","S","T","U","V","W","X","Y","Z">>

LowerLetters ==
  <<"a","b","c","d","e","f","g","h","i","j","k","l","m",
    "n","o","p","q","r","s","t","u","v","w","x","y","z">>

\* r >= 'A' && r <= 'Z'
IsUpperRune(r) == \E i \in DOMAIN UpperLetters : UpperLetters[i] = r

\* string(r - 'A' + 'a')
LowerOfUpperRune(r) == LowerLetters[CHOOSE i \in DOMAIN UpperLetters : UpperLetters[i] = r]

\* The characters url.QueryEscape leaves alone: letters, digits, '-', '_', '.', '~'.
IsUnreservedRune(r) ==
  \/ \E i \in DOMAIN UpperLetters : UpperLetters[i] = r \/ LowerLetters[i] = r
  \/ \E i \in DOMAIN DecimalDigits : DecimalDigits[i] = r
  \/ r \in {"-", "_", ".", "~"}

\* The %XX escapes of the reserved characters that occur in the inputs.
PercentEscape(r) ==
  CASE r = "&" -> <<"%","2","6">>
    [] r = "#" -> <<"%","2","3">>
    [] r = "=" -> <<"%","3","D">>
    [] r = "," -> <<"%","2","C">>
    [] r = "/" -> <<"%","2","F">>
    [] r = "?" -> <<"%","3","F">>
    [] r = ":" -> <<"%","3","A">>
    [] r = "%" -> <<"%","2","5">>
    [] r = "+" -> <<"%","2","B">>
    [] r = "!" -> <<"%","2","1">>
    [] r = "\"" -> <<"%","2","2">>

RECURSIVE QueryEscape(_)
\* url.QueryEscape(s), as url.Values.Encode applies it to keys and values.
QueryEscape(s) ==
  IF s = <<>> THEN <<>>
  ELSE LET r == Head(s)
           e == IF IsUnreservedRune(r) THEN <<r>>
                ELSE IF r = " " THEN <<"+">>
                ELSE PercentEscape(r)
       IN  e \o QueryEscape(Tail(s))

\* ------------------------------------------------------------------------
\* pkg/api/toolsets.go: the routing predicate and the path builder.
\* ------------------------------------------------------------------------

NoString == <<>>

\* The (string, bool) pair returned by the routing predicates.
RouteDecision(cluster, ok) == [cluster |-> cluster, ok |-> ok]

\* args["cluster"] of the tool call: exists says whether the key is in the
\* map, type is the dynamic type of its value, str the value of a string.
\* GetClusterParameter without the type assertion and the emptiness test: a
\* faulty variant, against which the non-string argument property is tested.
GetClusterParameter_AnyType(params) ==
  LET args == params.args
  IN  IF args.exists
      THEN RouteDecision(args.str, TRUE)
      ELSE RouteDecision(NoString, FALSE)

GetClusterParameter(params) ==
  LET args == params.args
  IN  IF args.exists /\ args.type = "string" /\ args.str # NoString
      THEN RouteDecision(args.str, TRUE)
      ELSE RouteDecision(NoString, FALSE)

\* ShouldUseACMProxy with the nil check of the client left out: a faulty
\* variant, against which the routing property is tested.
ShouldUseACMProxy_NoClientGate(params) ==
  IF ~params.IsACMMode
  THEN RouteDecision(NoString, FALSE)
  ELSE GetClusterParameter(params)

ShouldUseACMProxy(params) ==
  IF ~params.IsACMMode \/ params.ACMProxyClient = "nil"
  THEN RouteDecision(NoString, FALSE)
  ELSE GetClusterParameter(params)

ShouldUseACMProxyForLogs(params) ==
  IF ~params.IsACMMode \/ params.ACMProxyClient = "nil"
  THEN RouteDecision(NoString, FALSE)
  ELSE GetClusterParameter(params)

kindToResourceName(kind) ==
  IF \E e \in DOMAIN KindTable : KindTable[e][1] = kind
  THEN KindTable[CHOOSE e \in DOMAIN KindTable : KindTable[e][1] = kind][2]
  ELSE [i \in 1..Len(kind) |->
          IF i > 1 /\ IsUpperRune(kind[i]) THEN LowerOfUpperRune(kind[i]) ELSE kind[i]]
       \o <<"s">>

\* ResourceRoot with the namespace segment added unconditionally: a faulty
\* variant, against which the path property is tested.
ResourceRoot_AlwaysNamespaced(gvk, namespace) ==
  (IF Len(gvk.Group) = 0
   THEN FmtApi \o gvk.Version
   ELSE FmtApis \o gvk.Group \o FmtSlash \o gvk.Version)
  \o FmtNamespaces \o namespace

\* The "/api/{version}" or "/apis/{group}/{version}" root with the optional
\* namespace segment, shared by the generic list and get builders.
ResourceRoot(gvk, namespace) ==
  LET root == IF Len(gvk.Group) = 0
              THEN FmtApi \o gvk.Version
              ELSE FmtApis \o gvk.Group \o FmtSlash \o gvk.Version
  IN  IF namespace # NoString THEN root \o FmtNamespaces \o namespace ELSE root

\* if options.LabelSelector != "" { apiPath = apiPath + "?labelSelector=" + selector }
WithLabelSelector(apiPath, selector) ==
  IF selector # NoString THEN apiPath \o FmtLabelSelector \o selector ELSE apiPath

\* apiPath built by routeResourcesListThroughProxy
ResourcesListPath(gvk, namespace, selector) ==
  WithLabelSelector(ResourceRoot(gvk, namespace) \o FmtSlash \o kindToResourceName(gvk.Kind),
                    selector)

\* apiPath built by routeResourcesGetThroughProxy
ResourcesGetPath(gvk, namespace, name) ==
  ResourceRoot(gvk, namespace) \o FmtSlash \o kindToResourceName(gvk.Kind) \o FmtSlash \o name

\* apiPath built by routePodsListInNamespaceThroughProxy
PodsListInNamespacePath(namespace, selector) ==
  WithLabelSelector(FmtPodsInNamespace \o namespace \o FmtPodsSuffix, selector)

\* apiPath built by routePodsListInAllNamespacesThroughProxy
PodsListInAllNamespacesPath(selector) == WithLabelSelector(PathAllPods, selector)

\* The namespace list path without its label selector: a faulty variant,
\* against which the agreement with the generic builder is tested.
NamespacesListPath_NoSelector(selector) == PathAllNamespaces

\* apiPath built by routeNamespacesListThroughProxy
NamespacesListPath(selector) == WithLabelSelector(PathAllNamespaces, selector)

\* ------------------------------------------------------------------------
\* Values exchanged with the HTTP transport.
\* ------------------------------------------------------------------------

\* A Go error: nil, or a message.
NilError == [nil |-> TRUE, msg |-> NoString]
Error(msg) == [nil |-> FALSE, msg |-> msg]

\* A *http.Response: nil, or a status code with a body.
NilResponse == [nil |-> TRUE, status |-> 0, body |-> NoString]
Response(status, body) == [nil |-> FALSE, status |-> status, body |-> body]

\* A GET request handed to httpClient.Do: its URL, headers, and whether it
\* was built with the caller's context.
Request(url, token, accept, withCtx) ==
  [method |-> "GET", url |-> url, bearer |-> token, accept |-> accept, ctx |-> withCtx]

\* Bytes below 0x20 that make url.Parse (and so http.NewRequest) fail.
ControlRunes == {"\n", "\r", "\t"}

NewRequestFails(url) == \E i \in DOMAIN url : url[i] \in ControlRunes

\* ------------------------------------------------------------------------
\* pkg/acm/client.go
\* ------------------------------------------------------------------------

\* fullURL := fmt.Sprintf("https://%s/%s%s", c.proxyRouteHost, cluster, apiPath)
ProxyURL(host, cluster, apiPath) == FmtHttps \o host \o FmtSlash \o cluster \o apiPath

\* resp.StatusCode >= 400
IsHTTPError(status) == status >= 400

\* ProxyRequest sending the request a second time after a transport error: a
\* faulty variant, against which the no-retry property is tested.
ProxyRequest_RetriesTransport(c, cluster, apiPath, net) ==
  IF c.proxyRouteHost = NoString
  THEN [sent |-> <<>>, resp |-> NilResponse, err |-> Error(ErrRouteNotDiscovered)]
  ELSE LET fullURL == ProxyURL(c.proxyRouteHost, cluster, apiPath)
           req == Request(fullURL, c.bearerToken, "application/json", TRUE)
       IN  IF NewRequestFails(fullURL)
           THEN [sent |-> <<>>, resp |-> NilResponse,
                 err |-> Error(ErrCreateRequest \o ErrURLParse)]
           ELSE IF net.fails
           THEN [sent |-> <<req, req>>, resp |-> NilResponse,
                 err |-> Error(ErrRequestFailedFor \o cluster \o ErrColon \o net.cause)]
           ELSE IF IsHTTPError(net.status)
           THEN [sent |-> <<req>>, resp |-> NilResponse,
                 err |-> Error(ErrReturned \o FormatInt(net.status) \o ErrForCluster
                               \o cluster \o ErrColon \o net.body)]
           ELSE [sent |-> <<req>>, resp |-> Response(net.status, net.body),
                 err |-> NilError]

\* ProxyRequest on a client with fields c, answered by the transport with net
\* (net.fails: httpClient.Do returned an error with text net.cause; otherwise
\* a response net.status, net.body).  sent is the sequence of requests handed
\* to httpClient.Do.
ProxyRequest(c, cluster, apiPath, net) ==
  IF c.proxyRouteHost = NoString
  THEN [sent |-> <<>>, resp |-> NilResponse, err |-> Error(ErrRouteNotDiscovered)]
  ELSE LET fullURL == ProxyURL(c.proxyRouteHost, cluster, apiPath)
           req == Request(fullURL, c.bearerToken, "application/json", TRUE)
       IN  IF NewRequestFails(fullURL)
           THEN [sent |-> <<>>, resp |-> NilResponse,
                 err |-> Error(ErrCreateRequest \o ErrURLParse)]
           ELSE IF net.fails
           THEN [sent |-> <<req>>, resp |-> NilResponse,
                 err |-> Error(ErrRequestFailedFor \o cluster \o ErrColon \o net.cause)]
           ELSE IF IsHTTPError(net.status)
           THEN [sent |-> <<req>>, resp |-> NilResponse,
                 err |-> Error(ErrReturned \o FormatInt(net.status) \o ErrForCluster
                               \o cluster \o ErrColon \o net.body)]
           ELSE [sent |-> <<req>>, resp |-> Response(net.status, net.body),
                 err |-> NilError]

\* url.Parse: the part of a raw URL before the first '?', and the RawQuery
\* after it.
URLBeforeQuery(raw) ==
  IF Index(raw, <<"?">>) = -1 THEN raw ELSE SliceTo(raw, Index(raw, <<"?">>))

URLRawQuery(raw) ==
  IF Index(raw, <<"?">>) = -1 THEN NoString ELSE SliceFrom(raw, Index(raw, <<"?">>) + 1)

RECURSIVE ParseQuery(_)
\* u.Query(): the key=value pairs of a raw query, in order.
ParseQuery(query) ==
  IF query = NoString THEN <<>>
  ELSE LET amp  == Index(query, <<"&">>)
           pair == IF amp = -1 THEN query ELSE SliceTo(query, amp)
           rest == IF amp = -1 THEN NoString ELSE SliceFrom(query, amp + 1)
           eq   == Index(pair, <<"=">>)
           kv   == IF eq = -1 THEN [key |-> pair, value |-> NoString]
                   ELSE [key |-> SliceTo(pair, eq), value |-> SliceFrom(pair, eq + 1)]
       IN  IF pair = NoString THEN ParseQuery(rest) ELSE <<kv>> \o ParseQuery(rest)

\* q.Set(key, value)
SetValue(q, key, value) ==
  SelectSeq(q, LAMBDA kv : kv.key # key) \o <<[key |-> key, value |-> value]>>

RECURSIVE EncodeValues(_)
\* q.Encode(): "k=v" pairs, escaped, joined by '&'.
EncodeValues(q) ==
  IF q = <<>> THEN NoString
  ELSE QueryEscape(Head(q).key) \o <<"=">> \o QueryEscape(Head(q).value)
       \o (IF Tail(q) = <<>> THEN NoString ELSE <<"&">> \o EncodeValues(Tail(q)))

\* logPath of ProxyLogRequest
LogPath(cluster, namespace, pod, container) ==
  FmtLogPrefix \o cluster \o FmtLogClusterStatuses \o cluster \o FmtLogSegment
    \o namespace \o FmtSlash \o pod \o FmtSlash \o container

\* LogURL with the test tailLines >= 0 in place of tailLines > 0: a faulty
\* variant, against which the tail-line property is tested.
LogURL_ZeroTailSent(serverURL, cluster, namespace, pod, container, tailLines) ==
  LET raw == serverURL \o LogPath(cluster, namespace, pod, container)
      q0  == ParseQuery(URLRawQuery(raw))
      q   == IF tailLines >= 0 THEN SetValue(q0, KeyTailLines, FormatInt(tailLines)) ELSE q0
      enc == EncodeValues(q)
  IN  URLBeforeQuery(raw) \o (IF enc = NoString THEN NoString ELSE <<"?">> \o enc)

\* u.String() after u.RawQuery = q.Encode(), with tailLines set when positive.
LogURL(serverURL, cluster, namespace, pod, container, tailLines) ==
  LET raw == serverURL \o LogPath(cluster, namespace, pod, container)
      q0  == ParseQuery(URLRawQuery(raw))
      q   == IF tailLines > 0 THEN SetValue(q0, KeyTailLines, FormatInt(tailLines)) ELSE q0
      enc == EncodeValues(q)
  IN  URLBeforeQuery(raw) \o (IF enc = NoString THEN NoString ELSE <<"?">> \o enc)

ProxyLogRequest(c, cluster, namespace, pod, container, tailLines, net) ==
  LET raw == c.serverURL \o LogPath(cluster, namespace, pod, container)
      url == LogURL(c.serverURL, cluster, namespace, pod, container, tailLines)
      req == Request(url, c.bearerToken, "text/plain", TRUE)
  IN  IF NewRequestFails(raw)
      THEN [sent |-> <<>>, resp |-> NilResponse, err |-> Error(ErrParseLogURL \o ErrURLParse)]
      ELSE IF net.fails
      THEN [sent |-> <<req>>, resp |-> NilResponse,
            err |-> Error(ErrLogRequestFailedFor \o cluster \o ErrColon \o net.cause)]
      ELSE IF IsHTTPError(net.status)
      THEN [sent |-> <<req>>, resp |-> NilResponse,
            err |-> Error(ErrLogReturned \o FormatInt(net.status) \o ErrForCluster
                          \o cluster \o ErrColon \o net.body)]
      ELSE [sent |-> <<req>>, resp |-> Response(net.status, net.body), err |-> NilError]

\* ValidateCluster handing on the error of ProxyRequest as it is: a faulty
\* variant, against which the validation property is tested.
ValidateCluster_BareError(c, cluster, net) ==
  LET r == ProxyRequest(c, cluster, PathApiV1, net)
  IN  [sent |-> r.sent, err |-> r.err]

\* ValidateCluster: ProxyRequest(ctx, cluster, "/api/v1"), its error wrapped.
ValidateCluster(c, cluster, net) ==
  LET r == ProxyRequest(c, cluster, PathApiV1, net)
  IN  IF ~r.err.nil
      THEN [sent |-> r.sent,
            err |-> Error(ErrClusterPrefix \o cluster \o ErrNotAccessible \o r.err.msg)]
      ELSE [sent |-> r.sent, err |-> NilError]

\* IsACMEnvironment: GET serverURL + "/apis/cluster.open-cluster-management.io/v1"
IsACMEnvironment(c, net) ==
  LET checkURL == c.serverURL \o PathACMCheck
      req == Request(checkURL, c.bearerToken, "", TRUE)
  IN  IF NewRequestFails(checkURL) THEN [sent |-> <<>>, result |-> FALSE]
      ELSE IF net.fails THEN [sent |-> <<req>>, result |-> FALSE]
      ELSE [sent |-> <<req>>, result |-> (net.status = 200)]

\* ListManagedClusters: GET serverURL + ".../managedclusters"; the names are
\* not parsed, an empty list is returned on 200.
ListManagedClusters(c, net) ==
  LET checkURL == c.serverURL \o PathManagedClusters
      req == Request(checkURL, c.bearerToken, "application/json", TRUE)
  IN  IF NewRequestFails(checkURL)
      THEN [sent |-> <<>>, err |-> Error(ErrCreateClustersRequest \o ErrURLParse)]
      ELSE IF net.fails
      THEN [sent |-> <<req>>, err |-> Error(ErrListClusters \o net.cause)]
      ELSE IF net.status # 200
      THEN [sent |-> <<req>>, err |-> Error(ErrListClustersStatus \o FormatInt(net.status))]
      ELSE [sent |-> <<req>>, err |-> NilError]

\* parseRouteHost: substring search for "spec": and then "host":" after it.
parseRouteHost(jsonResponse) ==
  LET idx == Index(jsonResponse, NeedleSpec)
  IN  IF idx # -1
      THEN LET specPart == SliceFrom(jsonResponse, idx)
               hostIdx  == Index(specPart, NeedleHost)
           IN  IF hostIdx # -1
               THEN LET hostStart == hostIdx + Len(NeedleHost)
                        hostPart  == SliceFrom(specPart, hostStart)
                        endIdx    == Index(hostPart, NeedleQuote)
                    IN  IF endIdx # -1 THEN SliceTo(hostPart, endIdx) ELSE NoString
               ELSE NoString
      ELSE NoString

\* discoverProxyRoute reading the host out of the body whatever the status: a
\* faulty variant, against which the discovery-failure property is tested.
discoverProxyRoute_AnyStatus(serverURL, token, net) ==
  LET routeURL == serverURL \o PathRoute
      req == Request(routeURL, token, "application/json", FALSE)
  IN  IF NewRequestFails(routeURL) THEN [sent |-> <<>>, host |-> NoString]
      ELSE IF net.fails THEN [sent |-> <<req>>, host |-> NoString]
      ELSE IF net.readFails THEN [sent |-> <<req>>, host |-> NoString]
      ELSE [sent |-> <<req>>, host |-> parseRouteHost(net.body)]

\* discoverProxyRoute: one GET, built without a context; the host found (or
\* nothing) and the requests handed to httpClient.Do.  net.readFails: the body
\* could not be read.
discoverProxyRoute(serverURL, token, net) ==
  LET routeURL == serverURL \o PathRoute
      req == Request(routeURL, token, "application/json", FALSE)
  IN  IF NewRequestFails(routeURL) THEN [sent |-> <<>>, host |-> NoString]
      ELSE IF net.fails THEN [sent |-> <<req>>, host |-> NoString]
      ELSE IF net.status # 200 THEN [sent |-> <<req>>, host |-> NoString]
      ELSE IF net.readFails THEN [sent |-> <<req>>, host |-> NoString]
      ELSE [sent |-> <<req>>, host |-> parseRouteHost(net.body)]

\* ------------------------------------------------------------------------
\* Response decoding: json.Unmarshal(body, &obj) into an
\* unstructured.Unstructured.
\* ------------------------------------------------------------------------

IsDigitRune(r) == \E i \in DOMAIN DecimalDigits : DecimalDigits[i] = r

\* Position after the string literal that opens at s[i], 0 on a syntax error.
JSONStringEnd(s, i) ==
  IF i <= Len(s) /\ s[i] = "\""
  THEN LET k == Index(SliceFrom(s, i), NeedleQuote)
       IN  IF k = -1 THEN 0 ELSE i + k + 2
  ELSE 0

RECURSIVE JSONDigitsEnd(_, _)
JSONDigitsEnd(s, i) ==
  IF i <= Len(s) /\ IsDigitRune(s[i]) THEN JSONDigitsEnd(s, i + 1) ELSE i

RECURSIVE JSONValueEnd(_, _)
RECURSIVE JSONMembersEnd(_, _)
RECURSIVE JSONElementsEnd(_, _)

\* Position after the JSON value that starts at s[i], 0 on a syntax error.
JSONValueEnd(s, i) ==
  IF i > Len(s) THEN 0
  ELSE IF s[i] = "\"" THEN JSONStringEnd(s, i)
  ELSE IF s[i] = "{"
       THEN IF i + 1 <= Len(s) /\ s[i + 1] = "}" THEN i + 2 ELSE JSONMembersEnd(s, i + 1)
  ELSE IF s[i] = "["
       THEN IF i + 1 <= Len(s) /\ s[i + 1] = "]" THEN i + 2 ELSE JSONElementsEnd(s, i + 1)
  ELSE IF IsDigitRune(s[i]) THEN JSONDigitsEnd(s, i)
  ELSE 0

\* Position after the '}' closing the object whose next member starts at s[i].
JSONMembersEnd(s, i) ==
  LET k == JSONStringEnd(s, i)
  IN  IF k = 0 \/ k > Len(s) \/ s[k] # ":" THEN 0
      ELSE LET v == JSONValueEnd(s, k + 1)
           IN  IF v = 0 \/ v > Len(s) THEN 0
               ELSE IF s[v] = "}" THEN v + 1
               ELSE IF s[v] = "," THEN JSONMembersEnd(s, v + 1)
               ELSE 0

\* Position after the ']' closing the array whose next element starts at s[i].
JSONElementsEnd(s, i) ==
  LET v == JSONValueEnd(s, i)
  IN  IF v = 0 \/ v > Len(s) THEN 0
      ELSE IF s[v] = "]" THEN v + 1
      ELSE IF s[v] = "," THEN JSONElementsEnd(s, v + 1)
      ELSE 0

\* The body is one syntactically valid JSON document.
IsValidJSON(s) == JSONValueEnd(s, 1) = Len(s) + 1

RECURSIVE JSONMembers(_, _)
\* The members <<key, raw value>> of a valid object, from the member at s[i].
JSONMembers(s, i) ==
  IF i > Len(s) \/ s[i] # "\"" THEN <<>>
  ELSE LET k == JSONStringEnd(s, i)
           v == JSONValueEnd(s, k + 1)
           m == [key |-> SubSeq(s, i + 1, k - 2), value |-> SubSeq(s, k + 1, v - 1)]
       IN  IF s[v] = "," THEN <<m>> \o JSONMembers(s, v + 1) ELSE <<m>>

\* The decoded object: nil, or the top-level members of the document.
NilObject == [nil |-> TRUE, members |-> <<>>]
Object(members) == [nil |-> FALSE, members |-> members]

\* The object has a non-empty string member "kind", which the decoder of
\* unstructured.Unstructured requires.
HasKind(members) ==
  \E i \in DOMAIN members :
     /\ members[i].key = <<"k","i","n","d">>
     /\ Len(members[i].value) > 2
     /\ Head(members[i].value) = "\""

UnmarshalUnstructured(body) ==
  IF ~IsValidJSON(body) THEN [obj |-> NilObject, err |-> Error(ErrJSONSyntax)]
  ELSE IF body = NoString \/ Head(body) # "{"
  THEN [obj |-> NilObject, err |-> Error(ErrJSONNotObject)]
  ELSE IF ~HasKind(JSONMembers(body, 2))
  THEN [obj |-> NilObject, err |-> Error(ErrMissingKind)]
  ELSE [obj |-> Object(JSONMembers(body, 2)), err |-> NilError]

\* ------------------------------------------------------------------------
\* pkg/api/toolsets.go: forwarding helpers.
\* ------------------------------------------------------------------------

\* makeProxyRequest handing back the object it was decoding into together
\* with the decode error: a faulty variant, against which the decode-outcome
\* property is tested.
makeProxyRequest_PartialObject(params, c, cluster, apiPath, net) ==
  IF params.ACMProxyClient # "ProxyClient"
  THEN [sent |-> <<>>, obj |-> NilObject, err |-> Error(ErrNoProxyRequestMethod)]
  ELSE LET r == ProxyRequest(c, cluster, apiPath, net)
       IN  IF ~r.err.nil
           THEN [sent |-> r.sent, obj |-> NilObject,
                 err |-> Error(ErrProxyRequestFailed \o r.err.msg)]
           ELSE IF net.readFails
           THEN [sent |-> r.sent, obj |-> NilObject,
                 err |-> Error(ErrReadResponse \o net.cause)]
           ELSE LET d == UnmarshalUnstructured(r.resp.body)
                IN  IF ~d.err.nil
                    THEN [sent |-> r.sent, obj |-> Object(<<>>),
                          err |-> Error(ErrParseResponse \o d.err.msg)]
                    ELSE [sent |-> r.sent, obj |-> d.obj, err |-> NilError]

\* makeProxyRequest: the handle is asserted to implement ProxyRequest; c is
\* the ProxyClient behind the handle when it does.
makeProxyRequest(params, c, cluster, apiPath, net) ==
  IF params.ACMProxyClient # "ProxyClient"
  THEN [sent |-> <<>>, obj |-> NilObject, err |-> Error(ErrNoProxyRequestMethod)]
  ELSE LET r == ProxyRequest(c, cluster, apiPath, net)
       IN  IF ~r.err.nil
           THEN [sent |-> r.sent, obj |-> NilObject,
                 err |-> Error(ErrProxyRequestFailed \o r.err.msg)]
           ELSE IF net.readFails
           THEN [sent |-> r.sent, obj |-> NilObject,
                 err |-> Error(ErrReadResponse \o net.cause)]
           ELSE LET d == UnmarshalUnstructured(r.resp.body)
                IN  IF ~d.err.nil
                    THEN [sent |-> r.sent, obj |-> NilObject,
                          err |-> Error(ErrParseResponse \o d.err.msg)]
                    ELSE [sent |-> r.sent, obj |-> d.obj, err |-> NilError]

routeResourcesListThroughProxy(params, c, cluster, gvk, namespace, selector, net) ==
  makeProxyRequest(params, c, cluster, ResourcesListPath(gvk, namespace, selector), net)

routeResourcesGetThroughProxy(params, c, cluster, gvk, namespace, name, net) ==
  makeProxyRequest(params, c, cluster, ResourcesGetPath(gvk, namespace, name), net)

routeResourcesCreateOrUpdateThroughProxy(params, c, cluster, resource) ==
  [sent |-> <<>>, obj |-> NilObject, err |-> Error(ErrCreateNotImplemented)]

\* routeResourcesDeleteThroughProxy reporting success without doing anything:
\* a faulty variant, against which the unsupported-mutation property is tested.
routeResourcesDelete_SilentSuccess(params, c, cluster, gvk, namespace, name) ==
  [sent |-> <<>>, obj |-> NilObject, err |-> NilError]

routeResourcesDeleteThroughProxy(params, c, cluster, gvk, namespace, name) ==
  [sent |-> <<>>, obj |-> NilObject, err |-> Error(ErrDeleteNotImplemented)]

routePodsListInNamespaceThroughProxy(params, c, cluster, namespace, selector, net) ==
  makeProxyRequest(params, c, cluster, PodsListInNamespacePath(namespace, selector), net)

routePodsListInAllNamespacesThroughProxy(params, c, cluster, selector, net) ==
  makeProxyRequest(params, c, cluster, PodsListInAllNamespacesPath(selector), net)

routeNamespacesListThroughProxy(params, c, cluster, selector, net) ==
  makeProxyRequest(params, c, cluster, NamespacesListPath(selector), net)

\* ------------------------------------------------------------------------
\* The inputs the operations are exercised with.
\* ------------------------------------------------------------------------

\* "https://hub"
HubURL ==
  <<"h","t","t","p","s",":","/","/","h","u","b">>

\* "https://hub/"
HubURLSlash ==
  <<"h","t","t","p","s",":","/","/","h","u","b","/">>

\* "https://hub" followed by a line feed: a server URL no request can be built for
HubURLBad ==
  <<"h","t","t","p","s",":","/","/","h","u","b","\n">>

\* "tk"
Token ==
  <<"t","k">>

\* "rt.io"
RouteHost ==
  <<"r","t",".","i","o">>

\* "ev.io"
OtherHost ==
  <<"e","v",".","i","o">>

\* "c1"
ClusterC1 ==
  <<"c","1">>

\* "m2"
ClusterM2 ==
  <<"m","2">>

\* "ns"
NamespaceNs ==
  <<"n","s">>

\* "x"
NameX ==
  <<"x">>

\* "apps"
GroupApps ==
  <<"a","p","p","s">>

\* "v1"
VersionV1 ==
  <<"v","1">>

\* "Pod"
KindPod ==
  <<"P","o","d">>

\* "Deployment"
KindDeployment ==
  <<"D","e","p","l","o","y","m","e","n","t">>

\* "Namespace"
KindNamespace ==
  <<"N","a","m","e","s","p","a","c","e">>

\* "Widget"
KindWidget ==
  <<"W","i","d","g","e","t">>

\* "CronJob"
KindCronJob ==
  <<"C","r","o","n","J","o","b">>

\* "gadget"
KindLower ==
  <<"g","a","d","g","e","t">>

\* "app=foo"
SelectorAppFoo ==
  <<"a","p","p","=","f","o","o">>

\* "a=b&c=d"
SelectorAmp ==
  <<"a","=","b","&","c","=","d">>

\* "a#b"
SelectorHash ==
  <<"a","#","b">>

\* "a b"
SelectorSpace ==
  <<"a"," ","b">>

\* "a,b"
SelectorComma ==
  <<"a",",","b">>

\* "p1"
PodP1 ==
  <<"p","1">>

\* "ct"
ContainerCt ==
  <<"c","t">>

\* "kind: Pod"
ResourceYAML ==
  <<"k","i","n","d",":"," ","P","o","d">>

\* "EOF"
CauseEOF ==
  <<"E","O","F">>

\* "{"kind":"PodList","items":[]}"
BodyPodList ==
  <<"{","\"","k","i","n","d","\"",":","\"","P","o","d","L","i","s","t","\"",",","\"","i",
    "t","e","m","s","\"",":","[","]","}">>

\* "{"items":[]}"
BodyNoKind ==
  <<"{","\"","i","t","e","m","s","\"",":","[","]","}">>

\* "{"kind":"
BodyTruncated ==
  <<"{","\"","k","i","n","d","\"",":">>

\* "[1]"
BodyArray ==
  <<"[","1","]">>

\* "not found"
BodyNotFound ==
  <<"n","o","t"," ","f","o","u","n","d">>

\* "boom"
BodyBoom ==
  <<"b","o","o","m">>

\* "{"spec":{"host":"rt.io"}}"
BodyRoute ==
  <<"{","\"","s","p","e","c","\"",":","{","\"","h","o","s","t","\"",":","\"","r","t",".",
    "i","o","\"","}","}">>

\* "{"spec":{"to":"svc"}}"
BodyRouteNoHost ==
  <<"{","\"","s","p","e","c","\"",":","{","\"","t","o","\"",":","\"","s","v","c","\"","}",
    "}">>

\* "{"status":{"host":"ev.io"},"spec":{"host":"rt.io"}}"
BodyRouteStatusFirst ==
  <<"{","\"","s","t","a","t","u","s","\"",":","{","\"","h","o","s","t","\"",":","\"","e",
    "v",".","i","o","\"","}",",","\"","s","p","e","c","\"",":","{","\"","h","o","s","t",
    "\"",":","\"","r","t",".","i","o","\"","}","}">>

\* "{"spec":{"to":"svc"},"status":{"host":"ev.io"}}"
BodyRouteNestedHost ==
  <<"{","\"","s","p","e","c","\"",":","{","\"","t","o","\"",":","\"","s","v","c","\"","}",
    ",","\"","s","t","a","t","u","s","\"",":","{","\"","h","o","s","t","\"",":","\"","e",
    "v",".","i","o","\"","}","}">>

\* "{"spec":{"host":"rt.io"},"status":{"host":"ev.io"}}"
BodyRouteSpecFirst ==
  <<"{","\"","s","p","e","c","\"",":","{","\"","h","o","s","t","\"",":","\"","r","t",".",
    "i","o","\"","}",",","\"","s","t","a","t","u","s","\"",":","{","\"","h","o","s","t",
    "\"",":","\"","e","v",".","i","o","\"","}","}">>

\* "{"spec":{"to":{"host":"ev.io"},"host":"rt.io"}}"
BodyRouteDeepHost ==
  <<"{","\"","s","p","e","c","\"",":","{","\"","t","o","\"",":","{","\"","h","o","s","t",
    "\"",":","\"","e","v",".","i","o","\"","}",",","\"","h","o","s","t","\"",":","\"","r",
    "t",".","i","o","\"","}","}">>

\* "{"spec":{"host":"proxy.example.com"}}"
BodyRouteExample ==
  <<"{","\"","s","p","e","c","\"",":","{","\"","h","o","s","t","\"",":","\"","p","r","o",
    "x","y",".","e","x","a","m","p","l","e",".","c","o","m","\"","}","}">>

\* Largest tail-line count a log request is exercised with, besides 50.
MaxTailLines == 2

ServerURLs == {HubURL, HubURLSlash, HubURLBad}

Clusters == {ClusterC1, ClusterM2}

\* The value under args["cluster"]: absent, a string, or a value of another type.
ClusterArgs ==
  {[exists |-> FALSE, type |-> "none", str |-> NoString]}
    \cup {[exists |-> TRUE, type |-> "string", str |-> s] : s \in {NoString, ClusterC1}}
    \cup {[exists |-> TRUE, type |-> t, str |-> NoString] : t \in {"number", "bool", "list", "null"}}

\* ACMProxyClient is an untyped handle: nil, the *acm.ProxyClient, or a value
\* of a type without a ProxyRequest method.
Handles == {"nil", "ProxyClient", "Other"}

GVK(group, version, kind) == [Group |-> group, Version |-> version, Kind |-> kind]

GVKs ==
  {GVK(NoString, VersionV1, KindPod), GVK(NoString, VersionV1, KindNamespace),
   GVK(GroupApps, VersionV1, KindDeployment), GVK(GroupApps, VersionV1, KindWidget)}

\* Every kind of the table, and kinds outside it.
Kinds ==
  {KindTable[e][1] : e \in DOMAIN KindTable} \cup {KindWidget, KindCronJob, KindLower, NoString}

Namespaces == {NoString, NamespaceNs}

Names == {NoString, NameX}

Selectors ==
  {NoString, SelectorAppFoo, SelectorAmp, SelectorHash, SelectorSpace, SelectorComma}

TailLineCounts == (-1..MaxTailLines) \cup {50}

\* What the transport answers: an error, or a status with a body (readFails:
\* reading the body fails).
NetFailure == [fails |-> TRUE, cause |-> CauseEOF, status |-> 0, body |-> NoString,
               readFails |-> FALSE]
NetResponse(status, body) ==
  [fails |-> FALSE, cause |-> NoString, status |-> status, body |-> body, readFails |-> FALSE]
NetUnreadable(status) ==
  [fails |-> FALSE, cause |-> CauseEOF, status |-> status, body |-> NoString,
   readFails |-> TRUE]

\* No request reached the transport.
NoReply == [fails |-> FALSE, cause |-> NoString, status |-> 0, body |-> NoString,
            readFails |-> FALSE]

NetOutcomes ==
  {NetFailure, NetUnreadable(200),
   NetResponse(200, BodyPodList), NetResponse(200, BodyNoKind),
   NetResponse(200, BodyTruncated), NetResponse(200, BodyArray),
   NetResponse(204, NoString), NetResponse(304, NoString),
   NetResponse(404, BodyNotFound), NetResponse(500, BodyBoom)}

DiscoveryOutcomes ==
  {NetFailure, NetUnreadable(200), NetResponse(404, BodyNotFound),
   NetResponse(500, BodyRoute), NetResponse(200, BodyRoute), NetResponse(200, BodyRouteNoHost),
   NetResponse(200, BodyRouteStatusFirst), NetResponse(200, BodyRouteNestedHost),
   NetResponse(200, BodyRouteSpecFirst), NetResponse(200, BodyRouteDeepHost)}

\* The route bodies parseRouteHost is applied to.
RouteBodies ==
  {BodyRouteExample, BodyRoute, BodyRouteNoHost, BodyRouteStatusFirst, BodyRouteNestedHost,
   BodyRouteSpecFirst, BodyRouteDeepHost, BodyNoKind, BodyNotFound, NoString}

\* What the local Kubernetes client answers.
LocalObject == Object(<<[key |-> <<"k","i","n","d">>, value |-> <<"\"","L","\"">>]>>)
LocalError == Error(<<"l","o","c","a","l">>)
LocalOutcomes == {[obj |-> LocalObject, err |-> NilError], [obj |-> NilObject, err |-> LocalError]}

\* ------------------------------------------------------------------------
\* State.
\* ------------------------------------------------------------------------

VARIABLES
  constructed,         \* NewProxyClient has returned
  serverURL,           \* ProxyClient.serverURL
  bearerToken,         \* ProxyClient.bearerToken
  proxyRouteHost,      \* ProxyClient.proxyRouteHost
  insecureSkipVerify,  \* httpClient.Transport.TLSClientConfig.InsecureSkipVerify
  discoveries,         \* calls of discoverProxyRoute made so far
  lastForward,         \* the latest earlier generic Get/List forward that was followed
  call                 \* the last operation: its inputs and what it did

vars ==
  <<constructed, serverURL, bearerToken, proxyRouteHost, insecureSkipVerify, discoveries,
    lastForward, call>>

client == [serverURL |-> serverURL, bearerToken |-> bearerToken,
           proxyRouteHost |-> proxyRouteHost]

clientVars ==
  <<constructed, serverURL, bearerToken, proxyRouteHost, insecureSkipVerify, discoveries>>

NoParams == [IsACMMode |-> FALSE, ACMProxyClient |-> "nil",
             args |-> [exists |-> FALSE, type |-> "none", str |-> NoString]]

\* The arguments of an operation; the fields an operation does not take stay
\* at these values.
NoInput ==
  [gvk |-> GVK(NoString, NoString, NoString), namespace |-> NoString, name |-> NoString,
   selector |-> NoString, cluster |-> NoString, pod |-> NoString, container |-> NoString,
   tailLines |-> 0, resource |-> NoString, kind |-> NoString, body |-> NoString]

\* What an operation did: the routing decision it took, the requests it handed
\* to the transport and what the transport answered (reply), the local client
\* calls it made, and what it returned.
NoOutcome ==
  [route |-> "none", cluster |-> NoString, sent |-> <<>>, local |-> <<>>,
   obj |-> NilObject, resp |-> NilResponse, err |-> NilError, text |-> NoString,
   flag |-> FALSE, reply |-> NoReply]

\* The handles a request can carry: the ProxyClient only once it exists.
ParamsSet ==
  {[IsACMMode |-> m, ACMProxyClient |-> h, args |-> a] :
     m \in BOOLEAN, h \in (IF constructed THEN Handles ELSE Handles \ {"ProxyClient"}),
     a \in ClusterArgs}

\* The outcome of an operation that went to the tunnel.
Forwarded(cluster, r, net) ==
  [NoOutcome EXCEPT !.route = "Forward", !.cluster = cluster, !.sent = r.sent,
                    !.reply = IF r.sent # <<>> THEN net ELSE NoReply,
                    !.obj = r.obj, !.err = r.err]

\* Delegated wrapping the local client's error in a message of its own: a
\* faulty variant, against which the delegation property is tested.
Delegated_WrapsError(method, in, loc) ==
  [NoOutcome EXCEPT !.route = "Local",
                    !.local = <<[method |-> method, in |-> in, ret |-> loc]>>,
                    !.obj = loc.obj,
                    !.err = IF loc.err.nil THEN NilError
                            ELSE Error(ErrProxyRequestFailed \o loc.err.msg)]

\* The outcome of an operation delegated to the local client method: the
\* call made (method, arguments, what it answered) and what is returned.
Delegated(method, in, loc) ==
  [NoOutcome EXCEPT !.route = "Local",
                    !.local = <<[method |-> method, in |-> in, ret |-> loc]>>,
                    !.obj = loc.obj, !.err = loc.err]

NoCall == [op |-> "none", params |-> NoParams, in |-> NoInput, out |-> NoOutcome]

\* The generic Get/List arguments whose forwards are followed from one call
\* to the next: list pods in ns, list pods in all namespaces with a selector,
\* get deployment x in ns.
FollowedInputs ==
  {[NoInput EXCEPT !.gvk = GVK(NoString, VersionV1, KindPod), !.namespace = NamespaceNs],
   [NoInput EXCEPT !.gvk = GVK(NoString, VersionV1, KindPod), !.selector = SelectorAppFoo],
   [NoInput EXCEPT !.gvk = GVK(GroupApps, VersionV1, KindDeployment),
                   !.namespace = NamespaceNs, !.name = NameX]}

\* No forward was followed yet.
NoForward == [op |-> "none", in |-> NoInput, cluster |-> NoString, url |-> NoString]

\* The call just made is a generic Get/List forward of followed arguments
\* that produced a URL.
IsFollowedForward ==
  /\ call.op \in {"ResourcesList", "ResourcesGet"}
  /\ call.out.sent # <<>>
  /\ call.in \in FollowedInputs

\* An operation is a synchronous call: it starts when the caller holds no
\* result (Idle), runs to completion, and leaves its record in call.
Idle == call = NoCall

Record(op, params, in, out) ==
  /\ call' = [op |-> op, params |-> params, in |-> in, out |-> out]
  /\ UNCHANGED lastForward

Init ==
  /\ constructed = FALSE
  /\ serverURL = NoString
  /\ bearerToken = NoString
  /\ proxyRouteHost = NoString
  /\ insecureSkipVerify = FALSE
  /\ discoveries = 0
  /\ lastForward = NoForward
  /\ call = NoCall

\* ------------------------------------------------------------------------
\* Operations.
\* ------------------------------------------------------------------------

NewProxyClient ==
  /\ Idle
  /\ ~constructed
  /\ \E url \in ServerURLs, net \in DiscoveryOutcomes :
       LET trimmed == TrimSuffix(url, FmtSlash)
           d == discoverProxyRoute(trimmed, Token, net)
       IN  /\ constructed' = TRUE
           /\ serverURL' = trimmed
           /\ bearerToken' = Token
           /\ proxyRouteHost' = d.host
           /\ insecureSkipVerify' = TRUE
           /\ discoveries' = discoveries + 1
           /\ Record("NewProxyClient", NoParams, NoInput, [NoOutcome EXCEPT !.sent = d.sent,
                               !.reply = IF d.sent # <<>> THEN net ELSE NoReply])

\* ResourcesList building its path with the namespace of the forward before
\* it, as a builder that keeps state between calls would: a faulty variant,
\* against which the determinism property is tested.
ResourcesList_StaleNamespace ==
  /\ Idle
  /\ \E params \in ParamsSet, gvk \in GVKs, namespace \in Namespaces, selector \in Selectors,
        net \in NetOutcomes, loc \in LocalOutcomes :
       LET in == [NoInput EXCEPT !.gvk = gvk, !.namespace = namespace, !.selector = selector]
           d  == ShouldUseACMProxy(params)
           ns == IF lastForward = NoForward THEN namespace ELSE lastForward.in.namespace
       IN  /\ Record("ResourcesList", params, in,
                     IF d.ok
                     THEN Forwarded(d.cluster,
                            routeResourcesListThroughProxy(params, client, d.cluster, gvk,
                                                           ns, selector, net), net)
                     ELSE Delegated("ResourcesList", in, loc))
           /\ UNCHANGED clientVars

ResourcesList ==
  /\ Idle
  /\ \E params \in ParamsSet, gvk \in GVKs, namespace \in Namespaces, selector \in Selectors,
        net \in NetOutcomes, loc \in LocalOutcomes :
       LET in == [NoInput EXCEPT !.gvk = gvk, !.namespace = namespace, !.selector = selector]
           d  == ShouldUseACMProxy(params)
       IN  /\ Record("ResourcesList", params, in,
                     IF d.ok
                     THEN Forwarded(d.cluster,
                            routeResourcesListThroughProxy(params, client, d.cluster, gvk,
                                                           namespace, selector, net), net)
                     ELSE Delegated("ResourcesList", in, loc))
           /\ UNCHANGED clientVars

ResourcesGet ==
  /\ Idle
  /\ \E params \in ParamsSet, gvk \in GVKs, namespace \in Namespaces, name \in Names,
        net \in NetOutcomes, loc \in LocalOutcomes :
       LET in == [NoInput EXCEPT !.gvk = gvk, !.namespace = namespace, !.name = name]
           d  == ShouldUseACMProxy(params)
       IN  /\ Record("ResourcesGet", params, in,
                     IF d.ok
                     THEN Forwarded(d.cluster,
                            routeResourcesGetThroughProxy(params, client, d.cluster, gvk,
                                                          namespace, name, net), net)
                     ELSE Delegated("ResourcesGet", in, loc))
           /\ UNCHANGED clientVars

ResourcesCreateOrUpdate ==
  /\ Idle
  /\ \E params \in ParamsSet, loc \in LocalOutcomes :
       LET in == [NoInput EXCEPT !.resource = ResourceYAML]
           d  == ShouldUseACMProxy(params)
       IN  /\ Record("ResourcesCreateOrUpdate", params, in,
                     IF d.ok
                     THEN Forwarded(d.cluster,
                            routeResourcesCreateOrUpdateThroughProxy(params, client, d.cluster,
                                                                     ResourceYAML), NoReply)
                     ELSE Delegated("ResourcesCreateOrUpdate", in, loc))
           /\ UNCHANGED clientVars

ResourcesDelete ==
  /\ Idle
  /\ \E params \in ParamsSet, gvk \in GVKs, namespace \in Namespaces, name \in Names,
        loc \in LocalOutcomes :
       LET in == [NoInput EXCEPT !.gvk = gvk, !.namespace = namespace, !.name = name]
           d  == ShouldUseACMProxy(params)
       IN  /\ Record("ResourcesDelete", params, in,
                     IF d.ok
                     THEN Forwarded(d.cluster,
                            routeResourcesDeleteThroughProxy(params, client, d.cluster, gvk,
                                                             namespace, name), NoReply)
                     ELSE Delegated("ResourcesDelete", in, loc))
           /\ UNCHANGED clientVars

PodsListInNamespace ==
  /\ Idle
  /\ \E params \in ParamsSet, namespace \in Namespaces, selector \in Selectors,
        net \in NetOutcomes, loc \in LocalOutcomes :
       LET in == [NoInput EXCEPT !.namespace = namespace, !.selector = selector]
           d  == ShouldUseACMProxy(params)
       IN  /\ Record("PodsListInNamespace", params, in,
                     IF d.ok
                     THEN Forwarded(d.cluster,
                            routePodsListInNamespaceThroughProxy(params, client, d.cluster,
                                                                 namespace, selector, net), net)
                     ELSE Delegated("PodsListInNamespace", in, loc))
           /\ UNCHANGED clientVars

PodsListInAllNamespaces ==
  /\ Idle
  /\ \E params \in ParamsSet, selector \in Selectors, net \in NetOutcomes,
        loc \in LocalOutcomes :
       LET in == [NoInput EXCEPT !.selector = selector]
           d  == ShouldUseACMProxy(params)
       IN  /\ Record("PodsListInAllNamespaces", params, in,
                     IF d.ok
                     THEN Forwarded(d.cluster,
                            routePodsListInAllNamespacesThroughProxy(params, client, d.cluster,
                                                                     selector, net), net)
                     ELSE Delegated("PodsListInAllNamespaces", in, loc))
           /\ UNCHANGED clientVars

NamespacesList ==
  /\ Idle
  /\ \E params \in ParamsSet, selector \in Selectors, net \in NetOutcomes,
        loc \in LocalOutcomes :
       LET in == [NoInput EXCEPT !.selector = selector]
           d  == ShouldUseACMProxy(params)
       IN  /\ Record("NamespacesList", params, in,
                     IF d.ok
                     THEN Forwarded(d.cluster,
                            routeNamespacesListThroughProxy(params, client, d.cluster,
                                                            selector, net), net)
                     ELSE Delegated("NamespacesList", in, loc))
           /\ UNCHANGED clientVars

\* The direct proxy method: it takes the cluster as an argument and calls the
\* forwarding helper without evaluating the routing predicate.
PodsListInNamespaceThroughProxy ==
  /\ Idle
  /\ \E params \in ParamsSet, cluster \in Clusters, namespace \in Namespaces,
        selector \in Selectors, net \in NetOutcomes :
       LET in == [NoInput EXCEPT !.cluster = cluster, !.namespace = namespace,
                                 !.selector = selector]
       IN  /\ Record("PodsListInNamespaceThroughProxy", params, in,
                     Forwarded(cluster,
                       routePodsListInNamespaceThroughProxy(params, client, cluster,
                                                            namespace, selector, net), net))
           /\ UNCHANGED clientVars

\* A caller evaluating the log routing predicate.
CallShouldUseACMProxyForLogs ==
  /\ Idle
  /\ \E params \in ParamsSet :
       LET d == ShouldUseACMProxyForLogs(params)
       IN  /\ Record("ShouldUseACMProxyForLogs", params, NoInput,
                     [NoOutcome EXCEPT !.route = IF d.ok THEN "Forward" ELSE "Local",
                                       !.cluster = d.cluster, !.flag = d.ok])
           /\ UNCHANGED clientVars

\* A caller applying kindToResourceName to a kind.
CallKindToResourceName ==
  /\ Idle
  /\ \E kind \in Kinds :
       /\ Record("kindToResourceName", NoParams, [NoInput EXCEPT !.kind = kind],
                 [NoOutcome EXCEPT !.text = kindToResourceName(kind)])
       /\ UNCHANGED clientVars

\* A caller applying parseRouteHost to a route body.
CallParseRouteHost ==
  /\ Idle
  /\ \E body \in RouteBodies :
       /\ Record("parseRouteHost", NoParams, [NoInput EXCEPT !.body = body],
                 [NoOutcome EXCEPT !.text = parseRouteHost(body)])
       /\ UNCHANGED clientVars

CallProxyRequest ==
  /\ Idle
  /\ constructed
  /\ \E cluster \in Clusters, apiPath \in {PathApiV1, PathAllPods}, net \in NetOutcomes :
       LET r == ProxyRequest(client, cluster, apiPath, net)
       IN  /\ Record("ProxyRequest", NoParams,
                     [NoInput EXCEPT !.cluster = cluster, !.resource = apiPath],
                     [NoOutcome EXCEPT !.sent = r.sent, !.resp = r.resp, !.err = r.err,
                                       !.reply = IF r.sent # <<>> THEN net ELSE NoReply])
           /\ UNCHANGED clientVars

CallProxyLogRequest ==
  /\ Idle
  /\ constructed
  /\ \E cluster \in Clusters, namespace \in {NamespaceNs}, tailLines \in TailLineCounts,
        net \in NetOutcomes :
       LET r == ProxyLogRequest(client, cluster, namespace, PodP1, ContainerCt, tailLines, net)
       IN  /\ Record("ProxyLogRequest", NoParams,
                     [NoInput EXCEPT !.cluster = cluster, !.namespace = namespace, !.pod = PodP1,
                                     !.container = ContainerCt, !.tailLines = tailLines],
                     [NoOutcome EXCEPT !.sent = r.sent, !.resp = r.resp, !.err = r.err,
                                       !.reply = IF r.sent # <<>> THEN net ELSE NoReply])
           /\ UNCHANGED clientVars

\* ValidateCluster running discovery again on a client whose route is
\* unresolved: a faulty variant, against which the written-once property is
\* tested.
CallValidateCluster_Rediscovers ==
  /\ Idle
  /\ constructed
  /\ \E cluster \in Clusters, net \in NetOutcomes :
       LET r == ValidateCluster(client, cluster, net)
       IN  /\ Record("ValidateCluster", NoParams, [NoInput EXCEPT !.cluster = cluster],
                     [NoOutcome EXCEPT !.sent = r.sent, !.err = r.err,
                                       !.reply = IF r.sent # <<>> THEN net ELSE NoReply])
           /\ proxyRouteHost' = IF proxyRouteHost = NoString THEN RouteHost ELSE proxyRouteHost
           /\ discoveries' = IF proxyRouteHost = NoString THEN discoveries + 1 ELSE discoveries
           /\ UNCHANGED <<constructed, serverURL, bearerToken, insecureSkipVerify>>

CallValidateCluster ==
  /\ Idle
  /\ constructed
  /\ \E cluster \in Clusters, net \in NetOutcomes :
       LET r == ValidateCluster(client, cluster, net)
       IN  /\ Record("ValidateCluster", NoParams, [NoInput EXCEPT !.cluster = cluster],
                     [NoOutcome EXCEPT !.sent = r.sent, !.err = r.err,
                                       !.reply = IF r.sent # <<>> THEN net ELSE NoReply])
           /\ UNCHANGED clientVars

CallIsACMEnvironment ==
  /\ Idle
  /\ constructed
  /\ \E net \in NetOutcomes :
       LET r == IsACMEnvironment(client, net)
       IN  /\ Record("IsACMEnvironment", NoParams, NoInput,
                     [NoOutcome EXCEPT !.sent = r.sent, !.flag = r.result,
                                       !.reply = IF r.sent # <<>> THEN net ELSE NoReply])
           /\ UNCHANGED clientVars

CallListManagedClusters ==
  /\ Idle
  /\ constructed
  /\ \E net \in NetOutcomes :
       LET r == ListManagedClusters(client, net)
       IN  /\ Record("ListManagedClusters", NoParams, NoInput,
                     [NoOutcome EXCEPT !.sent = r.sent, !.err = r.err,
                                       !.reply = IF r.sent # <<>> THEN net ELSE NoReply])
           /\ UNCHANGED clientVars

\* The caller takes the result of the operation; the next call can start.
Return ==
  /\ call # NoCall
  /\ call' = NoCall
  /\ lastForward' =
       IF IsFollowedForward
       THEN [op |-> call.op, in |-> call.in, cluster |-> call.out.cluster,
             url |-> call.out.sent[1].url]
       ELSE lastForward
  /\ UNCHANGED clientVars

Next ==
  \/ NewProxyClient
  \/ ResourcesList
  \/ ResourcesGet
  \/ ResourcesCreateOrUpdate
  \/ ResourcesDelete
  \/ PodsListInNamespace
  \/ PodsListInAllNamespaces
  \/ NamespacesList
  \/ PodsListInNamespaceThroughProxy
  \/ CallShouldUseACMProxyForLogs
  \/ CallKindToResourceName
  \/ CallParseRouteHost
  \/ CallProxyRequest
  \/ CallProxyLogRequest
  \/ CallValidateCluster
  \/ CallIsACMEnvironment
  \/ CallListManagedClusters
  \/ Return

Spec == Init /\ [][Next]_vars

\* ------------------------------------------------------------------------
\* Properties.
\* ------------------------------------------------------------------------

HasPrefix(s, prefix) == Len(s) >= Len(prefix) /\ SubSeq(s, 1, Len(prefix)) = prefix

HasSuffix(s, suffix) ==
  Len(s) >= Len(suffix) /\ SubSeq(s, Len(s) - Len(suffix) + 1, Len(s)) = suffix

Contains(s, sub) == Index(s, sub) # -1

\* The shadow methods of ToolHandlerParams.
ShadowOps ==
  {"ResourcesList", "ResourcesGet", "ResourcesCreateOrUpdate", "ResourcesDelete",
   "PodsListInNamespace", "PodsListInAllNamespaces", "NamespacesList"}

\* The three gates of the routing predicate, read off a request's params.
ThreeGates(params) ==
  /\ params.IsACMMode
  /\ params.ACMProxyClient # "nil"
  /\ params.args.exists
  /\ params.args.type = "string"
  /\ params.args.str # NoString

\* C1: ShouldUseACMProxy returns (cluster, true) exactly when IsACMMode is
\* set, ACMProxyClient is non-nil and args["cluster"] is a non-empty string,
\* and the cluster returned is that argument; in every other case it returns
\* ("", false) and the shadow method goes to the local client.
C1_RoutingPredicate ==
  call.op \in ShadowOps =>
    IF ThreeGates(call.params)
    THEN /\ call.out.route = "Forward"
         /\ call.out.cluster = call.params.args.str
         /\ call.out.local = <<>>
    ELSE /\ call.out.route = "Local"
         /\ call.out.cluster = NoString
         /\ Len(call.out.local) = 1
         /\ call.out.sent = <<>>

\* C1 witness: a list request that passed the three gates for cluster c1.
C1_Witness ==
  /\ call.op = "ResourcesList"
  /\ call.out.route = "Forward"
  /\ call.out.cluster = ClusterC1
  /\ call.params.ACMProxyClient = "ProxyClient"

\* C2: when the routing predicate yields Forward, ResourcesCreateOrUpdate and
\* ResourcesDelete return the "not yet implemented via ACM proxy" error, and
\* neither a local client method nor a tunnel request is invoked.
C2_MutationsUnsupported ==
  (call.op \in {"ResourcesCreateOrUpdate", "ResourcesDelete"} /\ ThreeGates(call.params)) =>
    /\ ~call.out.err.nil
    /\ call.out.err.msg =
         (IF call.op = "ResourcesDelete" THEN ErrDeleteNotImplemented
          ELSE ErrCreateNotImplemented)
    /\ call.out.obj.nil
    /\ call.out.local = <<>>
    /\ call.out.sent = <<>>

\* C2 witness: a delete aimed at managed cluster c1 through a usable client.
C2_Witness ==
  /\ call.op = "ResourcesDelete"
  /\ ThreeGates(call.params)
  /\ call.params.ACMProxyClient = "ProxyClient"
  /\ proxyRouteHost # NoString
  /\ ~call.out.err.nil

\* The entry points of ToolHandlerParams that can reach the tunnel client.
EntryOps == ShadowOps \cup {"PodsListInNamespaceThroughProxy"}

\* C3: every entry point of ToolHandlerParams hands a request to the tunnel
\* client only if the three-gate predicate is true of the request's params,
\* and ShouldUseACMProxyForLogs returns what ShouldUseACMProxy returns.
C3_EveryEntryPointConsultsPredicate ==
  /\ (call.op \in EntryOps /\ call.out.sent # <<>>) => ShouldUseACMProxy(call.params).ok
  /\ call.op = "ShouldUseACMProxyForLogs" =>
       /\ call.out.flag = ShouldUseACMProxy(call.params).ok
       /\ call.out.cluster = ShouldUseACMProxy(call.params).cluster

\* The operations that send a request to the tunnel for a managed cluster.
TunnelOps == EntryOps \cup {"ProxyRequest", "ProxyLogRequest", "ValidateCluster"}

\* C4: a request for a managed cluster leaves the client only when the route
\* host was resolved; this covers ProxyRequest and ProxyLogRequest alike.
C4_ForwardOnlyWithResolvedRoute ==
  (call.op \in TunnelOps /\ call.out.sent # <<>>) =>
    /\ constructed
    /\ proxyRouteHost # NoString

\* The cluster a tunnel operation addresses.
TargetCluster ==
  IF call.op \in ShadowOps THEN call.out.cluster ELSE call.in.cluster

\* C5: every forwarded request, resource request and log request alike, goes
\* to "https://" + resolvedHost + "/" + cluster + path, never to the hub
\* server URL.
C5_ForwardedURLUsesRoute ==
  (call.op \in TunnelOps /\ call.out.sent # <<>>) =>
    \A i \in DOMAIN call.out.sent :
       /\ HasPrefix(call.out.sent[i].url,
                    FmtHttps \o proxyRouteHost \o FmtSlash \o TargetCluster \o FmtSlash)
       /\ ~HasPrefix(call.out.sent[i].url, serverURL \o FmtSlash)

\* The path of a forwarded request: what follows "https://host/cluster" in
\* its URL, up to the query.
SentPath(url) ==
  SliceFrom(URLBeforeQuery(url),
            Len(FmtHttps \o proxyRouteHost \o FmtSlash \o TargetCluster))

\* The query of a request, with its '?': what follows the path in the URL.
SentQuery(url) == SliceFrom(url, Len(URLBeforeQuery(url)))

\* The path specified for a gvk, a namespace and a name (none for
\* a list).
ExpectedResourcePath(gvk, namespace, name) ==
  (IF gvk.Group = NoString
   THEN FmtApi \o gvk.Version
   ELSE FmtApis \o gvk.Group \o FmtSlash \o gvk.Version)
  \o (IF namespace # NoString THEN FmtNamespaces \o namespace ELSE NoString)
  \o FmtSlash \o kindToResourceName(gvk.Kind)
  \o (IF name # NoString THEN FmtSlash \o name ELSE NoString)

\* "/api/v1/namespaces/ns/pods"
ExamplePodsPath ==
  <<"/","a","p","i","/","v","1","/","n","a","m","e","s","p","a","c","e","s","/","n","s","/",
    "p","o","d","s">>

\* "/apis/apps/v1/namespaces/ns/deployments/x"
ExampleDeploymentPath ==
  <<"/","a","p","i","s","/","a","p","p","s","/","v","1","/","n","a","m","e","s","p","a","c",
    "e","s","/","n","s","/","d","e","p","l","o","y","m","e","n","t","s","/","x">>

\* "?tailLines=50"
ExampleTailLines50 ==
  <<"?","t","a","i","l","L","i","n","e","s","=","5","0">>

RECURSIVE ToLowerAll(_)
\* The kind with every upper-case letter lower-cased.
ToLowerAll(s) ==
  IF s = <<>> THEN <<>>
  ELSE <<IF IsUpperRune(Head(s)) THEN LowerOfUpperRune(Head(s)) ELSE Head(s)>>
       \o ToLowerAll(Tail(s))

\* C7: kindToResourceName gives each kind of the table its REST plural, and
\* every other kind lower-cased in every letter, followed by "s".
C7_KindToResourceName ==
  call.op = "kindToResourceName" =>
    IF \E e \in DOMAIN KindTable : KindTable[e][1] = call.in.kind
    THEN \E e \in DOMAIN KindTable :
            KindTable[e][1] = call.in.kind /\ call.out.text = KindTable[e][2]
    ELSE call.out.text = ToLowerAll(call.in.kind) \o <<"s">>

RECURSIVE QueryEscapeKeepingEquals(_)
\* URL-encoding under the policy that treats '=' as safe.
QueryEscapeKeepingEquals(s) ==
  IF s = <<>> THEN <<>>
  ELSE (IF Head(s) = "=" THEN <<"=">> ELSE QueryEscape(<<Head(s)>>))
       \o QueryEscapeKeepingEquals(Tail(s))

\* The forwarded list operations.
ListOps ==
  {"ResourcesList", "PodsListInNamespace", "PodsListInAllNamespaces", "NamespacesList",
   "PodsListInNamespaceThroughProxy"}

\* C8: a forwarded list carries a non-empty label selector as the single
\* query parameter "?labelSelector=" + URL-encoded selector (under either
\* encoding policy for '='), and nothing for an empty selector.
C8_LabelSelectorEncoded ==
  (call.op \in ListOps /\ call.out.sent # <<>>) =>
    IF call.in.selector = NoString
    THEN SentQuery(call.out.sent[1].url) = NoString
    ELSE SentQuery(call.out.sent[1].url) \in
           {FmtLabelSelector \o QueryEscape(call.in.selector),
            FmtLabelSelector \o QueryEscapeKeepingEquals(call.in.selector)}

\* C9: the URL of a log request carries tailLines={n} exactly when n > 0;
\* for n <= 0 it has no query string at all, and for n = 50 it ends in
\* "?tailLines=50".
C9_TailLines ==
  (call.op = "ProxyLogRequest" /\ call.out.sent # <<>>) =>
    LET url == call.out.sent[1].url
        n   == call.in.tailLines
    IN  /\ Contains(url, KeyTailLines \o <<"=">>) <=> n > 0
        /\ n > 0 => SentQuery(url) = <<"?">> \o KeyTailLines \o <<"=">> \o FormatInt(n)
        /\ n <= 0 => ~Contains(url, <<"?">>)
        /\ n = 50 => HasSuffix(url, ExampleTailLines50)

\* C9 witness: a log request with a tail count of 50 was sent.
C9_Witness ==
  /\ call.op = "ProxyLogRequest"
  /\ call.out.sent # <<>>
  /\ call.in.tailLines = 50

\* C10: a response of ProxyRequest or ProxyLogRequest with a status outside
\* 200..299 gives an error, and no response, naming the cluster, the status
\* and the body; only a 2xx response is handed on.
C10_Non2xxIsError ==
  (call.op \in {"ProxyRequest", "ProxyLogRequest"} /\ call.out.sent # <<>>
     /\ ~call.out.reply.fails) =>
    IF call.out.reply.status \in 200..299
    THEN /\ call.out.err.nil
         /\ ~call.out.resp.nil
         /\ call.out.resp.status = call.out.reply.status
    ELSE /\ ~call.out.err.nil
         /\ call.out.resp.nil
         /\ Contains(call.out.err.msg, call.in.cluster)
         /\ Contains(call.out.err.msg, FormatInt(call.out.reply.status))
         /\ Contains(call.out.err.msg, call.out.reply.body)

\* The operations whose response body goes through makeProxyRequest.
DecodingOps == ListOps \cup {"ResourcesGet"}

\* The body is a single valid JSON object document.
IsJSONObjectDocument(body) == IsValidJSON(body) /\ body # NoString /\ Head(body) = "{"

\* C11: for every 2xx response body handed to makeProxyRequest, a body that
\* is not a single valid JSON object document gives a decode error and a nil
\* object; the operation returns either an object and no error, or no object
\* and an error, never an error together with an object.
C11_DecodeOutcome ==
  /\ (call.op \in EntryOps /\ call.out.route = "Forward") =>
       (call.out.obj.nil <=> ~call.out.err.nil)
  /\ (call.op \in DecodingOps /\ call.out.sent # <<>> /\ ~call.out.reply.fails
        /\ ~call.out.reply.readFails /\ call.out.reply.status \in 200..299
        /\ ~IsJSONObjectDocument(call.out.reply.body)) =>
       /\ call.out.obj.nil
       /\ ~call.out.err.nil
       /\ HasPrefix(call.out.err.msg, ErrParseResponse)

\* C11 witness: a forwarded pod list was answered 200 with a truncated JSON
\* body and returned a decode error without an object.
C11_Witness ==
  /\ call.op = "PodsListInNamespace"
  /\ call.out.sent # <<>>
  /\ call.out.reply.status = 200
  /\ call.out.reply.body = BodyTruncated
  /\ ~call.out.err.nil
  /\ call.out.obj.nil

\* "host" as a JSON key.
KeyHost == <<"\"","h","o","s","t","\"">>

\* The discovery call recorded by NewProxyClient failed: no request could be
\* built, the transport failed, the status was not 200, the body could not be
\* read, or the body has no host field.
DiscoveryFailed ==
  \/ call.out.sent = <<>>
  \/ call.out.reply.fails
  \/ call.out.reply.status # 200
  \/ call.out.reply.readFails
  \/ ~Contains(call.out.reply.body, KeyHost)

\* The operations that attempt a forward through ProxyRequest.
RouteNeedingOps == EntryOps \cup {"ProxyRequest", "ValidateCluster"}

MemberValue(members, key) ==
  LET S == {i \in DOMAIN members : members[i].key = key}
  IN  IF S = {} THEN NoString ELSE members[CHOOSE i \in S : \A j \in S : i <= j].value

\* The string value of the host member that is a direct member of the
\* top-level spec object of a JSON document; empty when there is none.
SpecHost(body) ==
  IF ~IsJSONObjectDocument(body) THEN NoString
  ELSE LET spec == MemberValue(JSONMembers(body, 2), <<"s","p","e","c">>)
       IN  IF spec = NoString \/ Head(spec) # "{" THEN NoString
           ELSE LET host == MemberValue(JSONMembers(spec, 2), <<"h","o","s","t">>)
                IN  IF host = NoString \/ Head(host) # "\"" THEN NoString
                    ELSE SubSeq(host, 2, Len(host) - 1)

\* "proxy.example.com"
ExampleHost ==
  <<"p","r","o","x","y",".","e","x","a","m","p","l","e",".","c","o","m">>

\* C13: parseRouteHost returns the string field host of the spec object of a
\* well-formed route body (proxy.example.com for the example body), and the
\* empty string for every body in which spec.host is missing.
C13_ParseRouteHost ==
  call.op = "parseRouteHost" =>
    /\ SpecHost(call.in.body) # NoString => call.out.text = SpecHost(call.in.body)
    /\ SpecHost(call.in.body) = NoString => call.out.text = NoString
    /\ call.in.body = BodyRouteExample => call.out.text = ExampleHost

\* C14: the host the route resolver stores from a 200 route body is the value
\* of the host member directly inside the top-level spec object, whatever the
\* order of the keys, and never a host of another substructure.
C14_RouteHostIsSpecMember ==
  (call.op = "NewProxyClient" /\ call.out.sent # <<>> /\ ~call.out.reply.fails
     /\ ~call.out.reply.readFails /\ call.out.reply.status = 200) =>
    proxyRouteHost = SpecHost(call.out.reply.body)

\* The methods of a constructed ProxyClient.
ClientOps ==
  {"ProxyRequest", "ProxyLogRequest", "ValidateCluster", "IsACMEnvironment",
   "ListManagedClusters"}

C16_NoInternalRetry ==
  /\ call.op \in TunnelOps => Len(call.out.sent) <= 1
  /\ (call.op \in EntryOps /\ call.out.route = "Forward") =>
       /\ call.out.local = <<>>
       /\ ~call.out.err.nil => call.out.obj.nil
  /\ (call.op \in DecodingOps /\ call.out.route = "Forward"
        /\ call.params.ACMProxyClient = "ProxyClient") =>
       /\ proxyRouteHost = NoString =>
            /\ call.out.sent = <<>>
            /\ call.out.err = Error(ErrProxyRequestFailed \o ErrRouteNotDiscovered)
       /\ (call.out.sent # <<>> /\ call.out.reply.fails) =>
            /\ HasPrefix(call.out.err.msg, ErrProxyRequestFailed \o ErrRequestFailedFor)
            /\ HasSuffix(call.out.err.msg, call.out.reply.cause)
       /\ (call.out.sent # <<>> /\ ~call.out.reply.fails /\ call.out.reply.status >= 400) =>
            HasPrefix(call.out.err.msg, ErrProxyRequestFailed \o ErrReturned)
       /\ (call.out.sent # <<>> /\ ~call.out.reply.fails /\ ~call.out.reply.readFails
             /\ call.out.reply.status \in 200..299
             /\ ~IsJSONObjectDocument(call.out.reply.body)) =>
            HasPrefix(call.out.err.msg, ErrParseResponse)

\* C16 witness: a forwarded pod list met a transport error after its one
\* request and returned the error without calling the local client.
C16_Witness ==
  /\ call.op = "PodsListInNamespace"
  /\ call.out.route = "Forward"
  /\ Len(call.out.sent) = 1
  /\ call.out.reply.fails
  /\ ~call.out.err.nil
  /\ call.out.local = <<>>

\* The text by which an error names the stage that failed.
StageTexts ==
  {ErrNoProxyRequestMethod, ErrCreateNotImplemented, ErrDeleteNotImplemented,
   ErrRouteNotDiscovered, ErrRequestFailedFor, ErrReturned, ErrReadResponse, ErrParseResponse}

\* C17: every forwarded operation that fails, at the decision, discovery,
\* transport, status or decode stage, returns an error whose text names the
\* failing stage and contains the name of the target cluster.
C17_FailedForwardNamesClusterAndStage ==
  (call.op \in EntryOps /\ call.out.route = "Forward" /\ ~call.out.err.nil) =>
    /\ \E t \in StageTexts : Contains(call.out.err.msg, t)
    /\ Contains(call.out.err.msg, call.out.cluster)

\* The end-to-end scenario: forwarding enabled, the tunnel client configured
\* with a resolved route, cluster "c1", list pods in namespace "ns".
EndToEndScenario ==
  /\ call.op = "PodsListInNamespace"
  /\ call.params.IsACMMode
  /\ call.params.ACMProxyClient = "ProxyClient"
  /\ call.params.args = [exists |-> TRUE, type |-> "string", str |-> ClusterC1]
  /\ proxyRouteHost # NoString
  /\ call.in.namespace = NamespaceNs
  /\ call.in.selector = NoString

\* C18: in the end-to-end scenario exactly one request, GET
\* https://{resolvedHost}/c1/api/v1/namespaces/ns/pods, is issued, the local
\* client is not called, and a 200 reply with a JSON object body comes back
\* to the caller as an object whose content is that body.
C18_EndToEnd ==
  EndToEndScenario =>
    /\ Len(call.out.sent) = 1
    /\ call.out.sent[1].method = "GET"
    /\ call.out.sent[1].url =
         FmtHttps \o proxyRouteHost \o FmtSlash \o ClusterC1 \o ExamplePodsPath
    /\ call.out.local = <<>>
    /\ (~call.out.reply.fails /\ ~call.out.reply.readFails /\ call.out.reply.status = 200
          /\ IsJSONObjectDocument(call.out.reply.body)) =>
         /\ call.out.err.nil
         /\ ~call.out.obj.nil
         /\ call.out.obj.members = JSONMembers(call.out.reply.body, 2)

\* C19: a tunnel client validates server certificates unless it was given an
\* explicit insecure configuration input; NewProxyClient takes no such input,
\* so every constructed client has InsecureSkipVerify false.
C19_CertificatesValidatedByDefault ==
  constructed => ~insecureSkipVerify

\* C20: every request handed to the transport on behalf of an operation, the
\* route-discovery request of NewProxyClient included, is built with the
\* caller's context, so that the call stops waiting when the caller cancels.
C20_EveryCallBoundToCallerContext ==
  \A i \in DOMAIN call.out.sent : call.out.sent[i].ctx

\* The generic Get and List operations.
GetListOps == {"ResourcesList", "ResourcesGet"}

\* The call just made forwards the same operation with the same arguments to
\* the same cluster as the earlier forward in lastForward.
RepeatsLastForward ==
  /\ call.op \in GetListOps
  /\ call.out.sent # <<>>
  /\ lastForward.op = call.op
  /\ lastForward.in = call.in
  /\ lastForward.cluster = call.out.cluster

C22_ExactlyOneTarget ==
  call.op \in ShadowOps =>
    \/ /\ call.out.route = "Local"
       /\ Len(call.out.local) = 1
       /\ call.out.local[1].method = call.op
       /\ call.out.local[1].in = call.in
       /\ call.out.obj = call.out.local[1].ret.obj
       /\ call.out.err = call.out.local[1].ret.err
       /\ call.out.sent = <<>>
       /\ call.out.reply = NoReply
    \/ /\ call.out.route = "Forward"
       /\ call.out.local = <<>>

\* C22 witness: a Get routed Local returned the local client's error.
C22_Witness ==
  /\ call.op = "ResourcesGet"
  /\ call.out.route = "Local"
  /\ Len(call.out.local) = 1
  /\ call.out.err = LocalError

\* The requests the generic list helper sends for gvk and namespace, with the
\* params, cluster, selector and reply of the call just made.
GenericListSent(gvk, namespace) ==
  routeResourcesListThroughProxy(call.params, client, call.out.cluster, gvk, namespace,
                                 call.in.selector, call.out.reply).sent

\* C23: for a non-empty namespace and any label selector the pod list of a
\* namespace is forwarded with the path the generic list builder gives for
\* core/v1 Pod in that namespace; the pod list of all namespaces with the
\* generic path for Pod and no namespace; the namespace list with the
\* generic path for Namespace and no namespace.
C23_SpecificPathsAgreeWithGeneric ==
  /\ (call.op \in {"PodsListInNamespace", "PodsListInNamespaceThroughProxy"}
        /\ call.out.sent # <<>> /\ call.in.namespace # NoString) =>
       /\ call.out.sent = GenericListSent(GVK(NoString, VersionV1, KindPod), call.in.namespace)
       /\ SentPath(call.out.sent[1].url) \o SentQuery(call.out.sent[1].url) =
            ResourcesListPath(GVK(NoString, VersionV1, KindPod), call.in.namespace,
                              call.in.selector)
  /\ (call.op = "PodsListInAllNamespaces" /\ call.out.sent # <<>>) =>
       /\ call.out.sent = GenericListSent(GVK(NoString, VersionV1, KindPod), NoString)
       /\ SentPath(call.out.sent[1].url) \o SentQuery(call.out.sent[1].url) =
            ResourcesListPath(GVK(NoString, VersionV1, KindPod), NoString, call.in.selector)
  /\ (call.op = "NamespacesList" /\ call.out.sent # <<>>) =>
       /\ call.out.sent = GenericListSent(GVK(NoString, VersionV1, KindNamespace), NoString)
       /\ SentPath(call.out.sent[1].url) \o SentQuery(call.out.sent[1].url) =
            ResourcesListPath(GVK(NoString, VersionV1, KindNamespace), NoString,
                              call.in.selector)

\* C23 witness: a namespace list with the selector app=foo was forwarded.
C23_Witness ==
  /\ call.op = "NamespacesList"
  /\ call.out.sent # <<>>
  /\ call.in.selector = SelectorAppFoo

\* The operations routed by the predicate over the call's arguments.
PredicateOps == ShadowOps \cup {"ShouldUseACMProxyForLogs"}

\* The params of the call with the "cluster" argument removed.
WithoutClusterArg(params) ==
  [params EXCEPT !.args = [exists |-> FALSE, type |-> "none", str |-> NoString]]

\* C24: a "cluster" argument that is not a string (a number, a boolean, a
\* list, null) is treated as an absent one: GetClusterParameter returns
\* ("", false) and the operation is routed Local whatever IsACMMode and the
\* client handle are; and GetClusterParameter never returns true with an
\* empty string.
C24_NonStringClusterIsAbsent ==
  call.op \in PredicateOps =>
    LET g == GetClusterParameter(call.params)
    IN  /\ g.ok => g.cluster # NoString
        /\ (call.params.args.exists /\ call.params.args.type # "string") =>
             /\ g = RouteDecision(NoString, FALSE)
             /\ g = GetClusterParameter(WithoutClusterArg(call.params))
             /\ call.out.route = "Local"
             /\ call.out.cluster = NoString
             /\ call.out.sent = <<>>
             /\ call.op \in ShadowOps => Len(call.out.local) = 1

\* C24 witness: with forwarding enabled and a usable client, a list whose
\* "cluster" argument is a number went to the local client.
C24_Witness ==
  /\ call.op = "ResourcesList"
  /\ call.params.IsACMMode
  /\ call.params.ACMProxyClient = "ProxyClient"
  /\ call.params.args.exists
  /\ call.params.args.type = "number"
  /\ call.out.route = "Local"

\* What ProxyRequest(cluster, "/api/v1") does on the client for the reply
\* the call just made received.
ApiRootRequest == ProxyRequest(client, call.in.cluster, PathApiV1, call.out.reply)

\* C25: ValidateCluster returns nil exactly when ProxyRequest(cluster,
\* "/api/v1") succeeds, sending what that request sends; on a client whose
\* route is unresolved it returns an error for every cluster and sends
\* nothing; every error it returns names the cluster; and it changes no
\* field of the client.
C25_ValidateCluster ==
  /\ [](call.op = "ValidateCluster" =>
          /\ call.out.err.nil <=> ApiRootRequest.err.nil
          /\ call.out.sent = ApiRootRequest.sent
          /\ call.out.err.nil <=>
               (call.out.sent # <<>> /\ ~call.out.reply.fails /\ call.out.reply.status < 400)
          /\ \A i \in DOMAIN call.out.sent :
               call.out.sent[i].url =
                 FmtHttps \o proxyRouteHost \o FmtSlash \o call.in.cluster \o PathApiV1
          /\ proxyRouteHost = NoString => (~call.out.err.nil /\ call.out.sent = <<>>)
          /\ ~call.out.err.nil =>
               /\ HasPrefix(call.out.err.msg, ErrClusterPrefix \o call.in.cluster)
               /\ HasSuffix(call.out.err.msg, ApiRootRequest.err.msg))
  /\ [][call'.op = "ValidateCluster" => UNCHANGED clientVars]_vars

\* C25 witness: on a client with an unresolved route ValidateCluster of m2
\* returned an error without sending a request.
C25_Witness ==
  /\ call.op = "ValidateCluster"
  /\ call.in.cluster = ClusterM2
  /\ proxyRouteHost = NoString
  /\ ~call.out.err.nil
  /\ call.out.sent = <<>>
====
